---- MODULE Spec2Model ----
(***************************************************************************)
(* appointEase: the relational store (shared/schema.ts), the storage       *)
(* gateway (DatabaseStorage) and the HTTP routes (registerRoutes) that     *)
(* create and change appointments, customers and services.                 *)
(*                                                                         *)
(* A table is the set of its rows; a row is a record carrying its serial   *)
(* id.  Rows are only appended to customers and appointments, so the heap  *)
(* order of a table is the order of its ids.  A clock time "HH:MM" is the  *)
(* pair <<HH, MM>> of the two numbers the string spells.  A JSON value of  *)
(* a request body is a record of its type and the number it is or spells.  *)
(* A stored price, the text of a decimal(10,2) column, is counted in cents. *)
(* reply is the response of the last request to a route other than the     *)
(* booking POST, whose responses are kept in requests, or the outcome of   *)
(* the last mutation of the onboarding wizard.                             *)
(***************************************************************************)
EXTENDS Integers, Sequences, FiniteSets, TLC

\* ---------------------------------------------------------------- bounds
MaxRequests == 2      \* public booking requests that may be in flight together
MaxAppointments == 2  \* appointment rows the store may hold
MaxBusinesses == 3    \* business rows the store may hold
MaxServices == 3      \* ids the services sequence may hand out
MaxStaff == 3         \* ids the staff sequence may hand out

\* the value of an absent (undefined) text field
None == "none"
\* the value of an absent id (serial ids start at 1), and the absent row
NoId == 0
NoRow == [id |-> NoId]
Found(row) == row.id # NoId

\* ---------------------------------------------------------------- inputs
Requests == 1..MaxRequests
\* users 1 and 2 own businesses 1 and 2, user 3 owns none
UserIds == {1, 2, 3}
BusinessIds == {1, 2}
ServiceIds == {1, 2}
StaffIds == {1, 2}
Dates == {"2024-01-10"}
\* dates of the month before, the first day of, a day within and the month
\* after January 2024
CalendarDates == {"2023-12-20", "2024-01-01", "2024-01-10", "2024-02-05"}
Names == {"Ann"}
\* the name field of a booking form: filled, left empty, or not sent
BodyNames == {"Ann", "", None}
Emails == {"ann@x.io", None}
Phones == {"555", None}
Durations == {30, 45}
BodyStatuses == {"pending", "confirmed"}
Statuses == {"pending", "confirmed", "completed", "cancelled"}
\* status is any text a body carries
AnyStatuses == {"pending", "completed", "bogus"}
BodyCustomerIds == {NoId, 1}

\* timeSlots of the booking pages (book.tsx); the model offers the first two
timeSlots == {<<9, 0>>, <<9, 30>>}
\* the last of the timeSlots
lastTimeSlot == <<17, 30>>

\* minutes in a day; an instant is counted in minutes from 2024-01-01T00:00
Day == 1440

\* the clock of the server at a request: 10 January 2024 at 00:00 and at 10:00
Nows == {9 * Day, 9 * Day + 600}

\* appointments.slice(-10)
RecentCount == 10

\* serviceTemplates of the onboarding wizard, two of its industries: the
\* duration is a number, the price a text
Industries == {"healthcare", "other"}
serviceTemplates ==
  [industry \in Industries |->
     IF industry = "healthcare"
     THEN <<[duration |-> 30, price |-> 150], [duration |-> 15, price |-> 75],
            [duration |-> 45, price |-> 200]>>
     ELSE <<[duration |-> 60, price |-> 75], [duration |-> 30, price |-> 50]>>]

\* JSON values of a request body: the whole number n, the number n/1000
\* when it is not whole, a text spelling n, and the absent field
Num(n) == [type |-> "number", val |-> n]
Frac(n) == [type |-> "fraction", val |-> n]
Str(n) == [type |-> "string", val |-> n]
Absent == [type |-> "undefined", val |-> 0]

\* prices and durations a service form may send: valid ones, zero, negative
\* ones, fractions and the text the onboarding templates send
BodyPrices == {Num(50), Num(0), Num(0 - 5), Frac(4), Frac(1500), Str(150)}
BodyDurations == {Num(30), Num(45), Num(0), Num(0 - 15), Frac(1500), Str(30)}
BodyStaffNames == {"Kim", None}

\* values of JavaScript arithmetic: a number, or a text made of the digits of
\* numbers and of decimal texts in the order they were appended
JsNumber(n) == [type |-> "number", val |-> n, text |-> <<>>]
JsText(tokens) == [type |-> "string", val |-> 0, text |-> tokens]

VARIABLES businesses, services, staff, customers, appointments, requests,
          seq, reply

vars == <<businesses, services, staff, customers, appointments, requests,
          seq, reply>>

\* the tables and the id sequences of services and staff
store == <<businesses, services, staff, customers, appointments, seq>>

\* ---------------------------------------------------------------- helpers
\* `const [row] = await db.select()...`: the first row of the result, or undefined
First(rows) ==
  IF rows = {} THEN NoRow
  ELSE CHOOSE r \in rows : \A q \in rows : r.id <= q.id

\* serial("id"): the next value of a table's id sequence
NextId(rows) == Cardinality(rows) + 1

ToMinutes(t) == t[1] * 60 + t[2]

\* book.tsx calculateEndTime / the inline copy in book.tsx and dashboard.tsx
calculateEndTime(startTime, duration) ==
  LET startMinutes == startTime[1] * 60 + startTime[2]
      endMinutes == startMinutes + duration
      endHours == endMinutes \div 60
      endMins == endMinutes % 60
  IN <<endHours, endMins>>

\* ---------------------------------------------------------------- storage
getBusiness(id) == First({b \in businesses : b.id = id})

getBusinessByUserId(userId) == First({b \in businesses : b.userId = userId})

getServices(businessId) == {s \in services : s.businessId = businessId}

getService(id) == First({s \in services : s.id = id})

getStaff(businessId) == {s \in staff : s.businessId = businessId}

getStaffMember(id) == First({s \in staff : s.id = id})

getCustomers(businessId) == {c \in customers : c.businessId = businessId}

getCustomer(id) == First({c \in customers : c.id = id})

\* .orderBy(appointments.startTime): rows with equal startTime in heap order
RECURSIVE orderByStartTime(_)
orderByStartTime(rows) ==
  IF rows = {} THEN <<>>
  ELSE LET head == CHOOSE r \in rows : \A q \in rows :
                     \/ ToMinutes(r.startTime) < ToMinutes(q.startTime)
                     \/ ToMinutes(r.startTime) = ToMinutes(q.startTime) /\ r.id <= q.id
       IN <<head>> \o orderByStartTime(rows \ {head})

\* .orderBy(desc(appointments.createdAt)): the latest insert first
RECURSIVE orderByDescCreatedAt(_)
orderByDescCreatedAt(rows) ==
  IF rows = {} THEN <<>>
  ELSE LET head == CHOOSE r \in rows : \A q \in rows : r.id >= q.id
       IN <<head>> \o orderByDescCreatedAt(rows \ {head})

\* getAppointments returning the rows of every business
getAppointments_AnyBusiness(businessId, date) ==
  IF date # None
  THEN orderByStartTime({a \in appointments : a.date = date})
  ELSE orderByDescCreatedAt(appointments)

getAppointments(businessId, date) ==
  IF date # None
  THEN orderByStartTime({a \in appointments : a.businessId = businessId /\ a.date = date})
  ELSE orderByDescCreatedAt({a \in appointments : a.businessId = businessId})

getAppointment(id) == First({a \in appointments : a.id = id})

\* getCustomerByContact without its email branch: the phone alone is matched
getCustomerByContact_PhoneOnly(businessId, email, phone) ==
  IF phone # None
  THEN First({c \in customers : c.businessId = businessId /\ c.phone = phone})
  ELSE NoRow

\* getCustomerByContact without its phone branch
getCustomerByContact_EmailOnly(businessId, email, phone) ==
  IF email # None
  THEN First({c \in customers : c.businessId = businessId /\ c.email = email})
  ELSE NoRow

\* getCustomerByContact asking for the phone before the email
getCustomerByContact_PhoneFirst(businessId, email, phone) ==
  LET byEmail == First({c \in customers : c.businessId = businessId /\ c.email = email})
      byPhone == First({c \in customers : c.businessId = businessId /\ c.phone = phone})
  IN IF phone # None /\ Found(byPhone) THEN byPhone
     ELSE IF email # None THEN byEmail
     ELSE NoRow

getCustomerByContact(businessId, email, phone) ==
  LET byEmail == First({c \in customers : c.businessId = businessId /\ c.email = email})
      byPhone == First({c \in customers : c.businessId = businessId /\ c.phone = phone})
  IN IF email # None /\ Found(byEmail) THEN byEmail
     ELSE IF phone # None THEN byPhone
     ELSE NoRow

\* insertCustomerSchema.parse: name is the one required field
CustomerParses(customerData) == customerData.name # None

\* insertAppointmentSchema.parse: customerId, serviceId, staffId, date,
\* startTime and endTime are required; status is optional
AppointmentParses(appointmentData) ==
  /\ appointmentData.customerId # NoId
  /\ appointmentData.serviceId # NoId
  /\ appointmentData.staffId # NoId

\* the row createCustomer inserts
NewCustomer(businessId, customerData) ==
  [id |-> NextId(customers), businessId |-> businessId,
   name |-> customerData.name, email |-> customerData.email,
   phone |-> customerData.phone]

\* the appointments table without the reference of customer_id
AppointmentRefsExist_NoCustomerRef(businessId, customerId, serviceId, staffId) ==
  /\ Found(getBusiness(businessId))
  /\ Found(getService(serviceId))
  /\ Found(getStaffMember(staffId))

\* references(() => ...) of the appointments table: the insert is refused
\* unless every referenced row exists
AppointmentRefsExist(businessId, customerId, serviceId, staffId) ==
  /\ Found(getBusiness(businessId))
  /\ Found(getCustomer(customerId))
  /\ Found(getService(serviceId))
  /\ Found(getStaffMember(staffId))

\* the row createAppointment inserts; status defaults to 'pending'
NewAppointment(businessId, customerId, data) ==
  [id |-> NextId(appointments), businessId |-> businessId,
   customerId |-> customerId, serviceId |-> data.serviceId,
   staffId |-> data.staffId, date |-> data.date,
   startTime |-> data.startTime, endTime |-> data.endTime,
   status |-> IF data.status = None THEN "pending" ELSE data.status]

\* ---------------------------------------------------------------- clients
\* appointmentData as the booking pages and the dashboard build it: endTime
\* from the duration of the selected service in the list the page holds, 60
\* when the service is not in the list.  customerId is None for the pages
\* (they send none) and a number for a caller that adds one.
AppointmentData(businessId, serviceId, staffId, date, time, status, customerId) ==
  LET selectedService == First({s \in getServices(businessId) : s.id = serviceId})
      duration == IF ~Found(selectedService) THEN 60 ELSE selectedService.duration
  IN [customerId |-> customerId, serviceId |-> serviceId, staffId |-> staffId,
      date |-> date, startTime |-> time,
      endTime |-> calculateEndTime(time, duration), status |-> status]

AppointmentBodies(businessId, serviceIds, staffIds, times, statuses, customerIds) ==
  {AppointmentData(businessId, sv, st, d, t, s, c) :
     sv \in serviceIds, st \in staffIds, d \in Dates, t \in times,
     s \in statuses, c \in customerIds}

NoCustomerData == [name |-> None, email |-> None, phone |-> None]

NoAppointmentData ==
  [customerId |-> NoId, serviceId |-> NoId, staffId |-> NoId, date |-> None,
   startTime |-> <<0, 0>>, endTime |-> <<0, 0>>, status |-> None]

\* the response body of a read: the rows listed and the analytics counts
NoBody ==
  [business |-> NoId, services |-> {}, staff |-> {}, appointments |-> <<>>,
   totalAppointments |-> 0, totalCustomers |-> 0, totalServices |-> 0,
   totalStaff |-> 0, totalRevenue |-> JsNumber(0), monthlyAppointments |-> 0,
   recentAppointments |-> <<>>, industry |-> None, step |-> 0]

NoReply == [route |-> None, user |-> NoId, id |-> NoId, code |-> None, body |-> NoBody]

Reply(route, user, id, code) ==
  [route |-> route, user |-> user, id |-> id, code |-> code, body |-> NoBody]

\* res.json(body)
ReplyWith(route, user, id, body) ==
  [route |-> route, user |-> user, id |-> id, code |-> "200", body |-> body]

IdleRequest ==
  [pc |-> "idle", businessId |-> NoId, customerData |-> NoCustomerData,
   appointmentData |-> NoAppointmentData, seen |-> 0, customerId |-> NoId,
   created |-> FALSE, appointmentId |-> NoId, response |-> None]

\* ---------------------------------------------------------------- Init
\* two tenants, each with one service and one staff member, no bookings yet
Init ==
  /\ businesses = {[id |-> 1, userId |-> 1], [id |-> 2, userId |-> 2]}
  /\ services = {[id |-> 1, businessId |-> 1, duration |-> 30, price |-> Str(5000)],
                 [id |-> 2, businessId |-> 2, duration |-> 45, price |-> Str(5000)]}
  /\ staff = {[id |-> 1, businessId |-> 1, name |-> "Sam"],
              [id |-> 2, businessId |-> 2, name |-> "Sam"]}
  /\ customers = {}
  /\ appointments = {}
  /\ requests = [r \in Requests |-> IdleRequest]
  /\ seq = [services |-> 2, staff |-> 2]
  /\ reply = NoReply

\* ---------------------------------------------------------------- routes
\* the booking requests that have started and not yet answered
InFlight == {r \in Requests : requests[r].pc \in {"needCustomer", "haveCustomer"}}

\* POST /api/book/:businessId/appointment, up to the end of
\* storage.getCustomerByContact.  Request slots are taken in order.
BookLookup(r, businessId, customerData, appointmentData) ==
  /\ requests[r].pc = "idle"
  /\ \A q \in Requests : q < r => requests[q].pc # "idle"
  /\ Cardinality(appointments) + Cardinality(InFlight) < MaxAppointments
  /\ LET customer == getCustomerByContact(businessId, customerData.email, customerData.phone)
     IN requests' = [requests EXCEPT ![r] =
          [@ EXCEPT !.pc = IF Found(customer) THEN "haveCustomer" ELSE "needCustomer",
                    !.businessId = businessId,
                    !.customerData = customerData,
                    !.appointmentData = appointmentData,
                    !.seen = Cardinality(customers),
                    !.customerId = customer.id]]
  /\ UNCHANGED <<businesses, services, staff, customers, appointments, seq, reply>>

\* ... insertCustomerSchema.parse and storage.createCustomer
BookCreateCustomer(r) ==
  LET q == requests[r] IN
  /\ q.pc = "needCustomer"
  /\ IF ~CustomerParses(q.customerData)
     THEN /\ requests' = [requests EXCEPT ![r] =
                 [@ EXCEPT !.pc = "done", !.response = "ZodError",
                           !.appointmentData = NoAppointmentData]]
          /\ UNCHANGED customers
     ELSE IF ~Found(getBusiness(q.businessId))
     THEN /\ requests' = [requests EXCEPT ![r] =
                 [@ EXCEPT !.pc = "done", !.response = "DbError",
                           !.appointmentData = NoAppointmentData]]
          /\ UNCHANGED customers
     ELSE LET customer == NewCustomer(q.businessId, q.customerData)
          IN /\ customers' = customers \cup {customer}
             /\ requests' = [requests EXCEPT ![r] =
                    [@ EXCEPT !.pc = "haveCustomer", !.customerId = customer.id,
                              !.created = TRUE]]
  /\ UNCHANGED <<businesses, services, staff, appointments, seq, reply>>

\* ... insertAppointmentSchema.parse, storage.createAppointment, the response
BookCreateAppointment(r) ==
  LET q == requests[r] IN
  /\ q.pc = "haveCustomer"
  /\ IF ~AppointmentParses(q.appointmentData)
     THEN /\ requests' = [requests EXCEPT ![r] =
                 [@ EXCEPT !.pc = "done", !.response = "ZodError",
                           !.appointmentData = NoAppointmentData]]
          /\ UNCHANGED appointments
     ELSE IF ~AppointmentRefsExist(q.businessId, q.customerId,
                   q.appointmentData.serviceId, q.appointmentData.staffId)
     THEN /\ requests' = [requests EXCEPT ![r] =
                 [@ EXCEPT !.pc = "done", !.response = "DbError",
                           !.appointmentData = NoAppointmentData]]
          /\ UNCHANGED appointments
     ELSE LET appointment == NewAppointment(q.businessId, q.customerId, q.appointmentData)
          IN /\ appointments' = appointments \cup {appointment}
             /\ requests' = [requests EXCEPT ![r] =
                    [@ EXCEPT !.pc = "done", !.response = "201",
                              !.appointmentId = appointment.id,
                              !.appointmentData = NoAppointmentData]]
  /\ UNCHANGED <<businesses, services, staff, customers, seq, reply>>

\* `if (!req.isAuthenticated()) return res.status(401)`: every user with a
\* session passes
isAuthenticated_Anyone(user) == TRUE

\* `if (!req.isAuthenticated()) return res.status(401)`: user NoId has no session
isAuthenticated(user) == user # NoId

\* the answer of a route that leaves the tables as they are
Answer(route, user, id, code) ==
  /\ reply' = Reply(route, user, id, code)
  /\ UNCHANGED <<businesses, services, staff, customers, appointments, requests, seq>>

\* the answer of a read
AnswerWith(route, user, id, body) ==
  /\ reply' = ReplyWith(route, user, id, body)
  /\ UNCHANGED <<businesses, services, staff, customers, appointments, requests, seq>>

\* insertBusinessSchema.parse: name, industry, email and phone are required
BusinessParses(body) == body.name # None

\* POST /api/business by user
PostBusiness(user, body) ==
  LET route == "POST /api/business"
      business == [id |-> NextId(businesses), userId |-> user]
  IN
  /\ Cardinality(businesses) < MaxBusinesses
  /\ IF ~isAuthenticated(user) THEN Answer(route, user, NoId, "401")
     ELSE IF ~BusinessParses(body) THEN Answer(route, user, NoId, "ZodError")
     ELSE /\ businesses' = businesses \cup {business}
          /\ reply' = Reply(route, user, business.id, "201")
          /\ UNCHANGED <<services, staff, customers, appointments, requests, seq>>

\* GET /api/business by user
GetBusiness(user) ==
  LET route == "GET /api/business"
      business == getBusinessByUserId(user)
  IN IF ~isAuthenticated(user) THEN Answer(route, user, NoId, "401")
     ELSE IF ~Found(business) THEN Answer(route, user, NoId, "404")
     ELSE AnswerWith(route, user, business.id, [NoBody EXCEPT !.business = business.id])

\* GET /api/services by user
GetServices(user) ==
  LET route == "GET /api/services"
      business == getBusinessByUserId(user)
  IN IF ~isAuthenticated(user) THEN Answer(route, user, NoId, "401")
     ELSE IF ~Found(business) THEN Answer(route, user, NoId, "404")
     ELSE AnswerWith(route, user, business.id,
                     [NoBody EXCEPT !.services = getServices(business.id)])

\* insertServiceSchema: duration is z.number().int().positive()
DurationParses_AnyInteger(value) == value.type = "number"

DurationParses(value) == value.type = "number" /\ value.val > 0

\* insertServiceSchema: price is z.number().positive()
PriceParses(value) == value.type \in {"number", "fraction"} /\ value.val > 0

ServiceParses(body) == DurationParses(body.duration) /\ PriceParses(body.price)

\* insertServiceSchema.partial(): either field may be absent
ServicePartialParses(body) ==
  /\ body.duration = Absent \/ DurationParses(body.duration)
  /\ body.price = Absent \/ PriceParses(body.price)

\* a number written into a decimal(10,2) column: cents, the third decimal
\* rounded half up
toDecimal(value) ==
  IF value.type = "number" THEN value.val * 100 ELSE (value.val + 5) \div 10

\* POST /api/services by user, body {duration, price}
PostService(user, body) ==
  LET route == "POST /api/services"
      business == getBusinessByUserId(user)
      service == [id |-> seq.services + 1, businessId |-> business.id,
                  duration |-> body.duration.val,
                  price |-> Str(toDecimal(body.price))]
  IN
  /\ seq.services < MaxServices
  /\ IF ~isAuthenticated(user) THEN Answer(route, user, NoId, "401")
     ELSE IF ~Found(business) THEN Answer(route, user, NoId, "404")
     ELSE IF ~ServiceParses(body) THEN Answer(route, user, NoId, "ZodError")
     ELSE /\ services' = services \cup {service}
          /\ seq' = [seq EXCEPT !.services = @ + 1]
          /\ reply' = Reply(route, user, service.id, "201")
          /\ UNCHANGED <<businesses, staff, customers, appointments, requests>>

\* the body the wizard posts for a template
TemplateBody(template) ==
  [duration |-> Num(template.duration), price |-> Str(template.price)]

\* the rows POST /api/services stores for the templates of the list that it
\* accepts, the first with id next
RECURSIVE createServices(_, _, _)
createServices(templates, businessId, next) ==
  IF templates = <<>> THEN {}
  ELSE LET body == TemplateBody(Head(templates))
       IN IF ServiceParses(body)
          THEN {[id |-> next, businessId |-> businessId,
                 duration |-> body.duration.val,
                 price |-> Str(toDecimal(body.price))]}
               \cup createServices(Tail(templates), businessId, next + 1)
          ELSE createServices(Tail(templates), businessId, next)

\* onboarding.tsx handleServiceSetup and createServiceMutation for user, on
\* the services step: one POST /api/services per template of the industry;
\* when all are answered 201 the wizard goes to step 3, when one fails it
\* stays on step 2 (apiRequest throws on a response that is not ok)
handleServiceSetup(user, industry) ==
  LET route == "onboarding: Use These Services"
      templates == serviceTemplates[industry]
      business == getBusinessByUserId(user)
      served == isAuthenticated(user) /\ Found(business)
      rows == IF served THEN createServices(templates, business.id, seq.services + 1)
              ELSE {}
      allCreated == Cardinality(rows) = Len(templates)
  IN
  /\ seq.services + Cardinality(rows) <= MaxServices
  /\ services' = services \cup rows
  /\ seq' = [seq EXCEPT !.services = @ + Cardinality(rows)]
  /\ reply' = [Reply(route, user, NoId, IF allCreated THEN "onSuccess" ELSE "onError")
                 EXCEPT !.body = [NoBody EXCEPT !.industry = industry,
                                                !.step = IF allCreated THEN 3 ELSE 2]]
  /\ UNCHANGED <<businesses, staff, customers, appointments, requests>>

\* DatabaseStorage.updateService: the row with the fields of the body set
updateService(id, body) ==
  {IF s.id = id
   THEN [s EXCEPT !.duration = IF body.duration = Absent THEN @ ELSE body.duration.val,
                  !.price = IF body.price = Absent THEN @ ELSE Str(toDecimal(body.price))]
   ELSE s : s \in services}

\* PUT /api/services/:id by user, body {duration?, price?}
PutService(user, serviceId, body) ==
  LET route == "PUT /api/services/:id" IN
  IF ~isAuthenticated(user) THEN Answer(route, user, serviceId, "401")
  ELSE IF ~ServicePartialParses(body) THEN Answer(route, user, serviceId, "ZodError")
  ELSE /\ services' = updateService(serviceId, body)
       /\ reply' = Reply(route, user, serviceId, "200")
       /\ UNCHANGED <<businesses, staff, customers, appointments, requests, seq>>

\* the appointments table without the reference of service_id
ServiceReferenced_NoServiceRef(id) == FALSE

\* references(() => services.id) of the appointments table, no onDelete
\* action: a delete of a referenced service is refused
ServiceReferenced(id) == \E a \in appointments : a.serviceId = id

\* references(() => staff.id) of the appointments table (no route writes the
\* availability table)
StaffReferenced(id) == \E a \in appointments : a.staffId = id

\* DELETE /api/services/:id by user
DeleteService(user, serviceId) ==
  LET route == "DELETE /api/services/:id" IN
  IF ~isAuthenticated(user) THEN Answer(route, user, serviceId, "401")
  ELSE IF ServiceReferenced(serviceId) THEN Answer(route, user, serviceId, "DbError")
  ELSE /\ services' = {s \in services : s.id # serviceId}
       /\ reply' = Reply(route, user, serviceId, "204")
       /\ UNCHANGED <<businesses, staff, customers, appointments, requests, seq>>

\* GET /api/staff by user
GetStaff(user) ==
  LET route == "GET /api/staff"
      business == getBusinessByUserId(user)
  IN IF ~isAuthenticated(user) THEN Answer(route, user, NoId, "401")
     ELSE IF ~Found(business) THEN Answer(route, user, NoId, "404")
     ELSE AnswerWith(route, user, business.id,
                     [NoBody EXCEPT !.staff = getStaff(business.id)])

\* insertStaffSchema.parse: name and email are required
StaffParses(body) == body.name # None

\* POST /api/staff by user, body {name}
PostStaff(user, body) ==
  LET route == "POST /api/staff"
      business == getBusinessByUserId(user)
      member == [id |-> seq.staff + 1, businessId |-> business.id, name |-> body.name]
  IN
  /\ seq.staff < MaxStaff
  /\ IF ~isAuthenticated(user) THEN Answer(route, user, NoId, "401")
     ELSE IF ~Found(business) THEN Answer(route, user, NoId, "404")
     ELSE IF ~StaffParses(body) THEN Answer(route, user, NoId, "ZodError")
     ELSE /\ staff' = staff \cup {member}
          /\ seq' = [seq EXCEPT !.staff = @ + 1]
          /\ reply' = Reply(route, user, member.id, "201")
          /\ UNCHANGED <<businesses, services, customers, appointments, requests>>

\* DatabaseStorage.updateStaff: the row with the fields of the body set
updateStaff(id, body) ==
  {IF s.id = id /\ body.name # None THEN [s EXCEPT !.name = body.name] ELSE s :
     s \in staff}

\* PUT /api/staff/:id by user, body {name?}
PutStaff(user, staffId, body) ==
  LET route == "PUT /api/staff/:id" IN
  IF ~isAuthenticated(user) THEN Answer(route, user, staffId, "401")
  ELSE /\ staff' = updateStaff(staffId, body)
       /\ reply' = Reply(route, user, staffId, "200")
       /\ UNCHANGED <<businesses, services, customers, appointments, requests, seq>>

\* DELETE /api/staff/:id by user
DeleteStaff(user, staffId) ==
  LET route == "DELETE /api/staff/:id" IN
  IF ~isAuthenticated(user) THEN Answer(route, user, staffId, "401")
  ELSE IF StaffReferenced(staffId) THEN Answer(route, user, staffId, "DbError")
  ELSE /\ staff' = {s \in staff : s.id # staffId}
       /\ reply' = Reply(route, user, staffId, "204")
       /\ UNCHANGED <<businesses, services, customers, appointments, requests, seq>>

\* GET /api/appointments?date= by user (date None: no query parameter)
GetAppointments(user, date) ==
  LET route == "GET /api/appointments"
      business == getBusinessByUserId(user)
  IN IF ~isAuthenticated(user) THEN Answer(route, user, NoId, "401")
     ELSE IF ~Found(business) THEN Answer(route, user, NoId, "404")
     ELSE AnswerWith(route, user, business.id,
                     [NoBody EXCEPT !.appointments = getAppointments(business.id, date)])

\* the handler of POST /api/appointments
createAppointmentRoute(user, body) ==
  LET business == getBusinessByUserId(user)
      route == "POST /api/appointments"
      appointment == NewAppointment(business.id, body.customerId, body)
  IN IF ~isAuthenticated(user) THEN Answer(route, user, NoId, "401")
     ELSE IF ~Found(business) THEN Answer(route, user, NoId, "404")
     ELSE IF ~AppointmentParses(body) THEN Answer(route, user, NoId, "ZodError")
     ELSE IF ~AppointmentRefsExist(business.id, body.customerId, body.serviceId, body.staffId)
     THEN Answer(route, user, NoId, "DbError")
     ELSE /\ appointments' = appointments \cup {appointment}
          /\ reply' = Reply(route, user, appointment.id, "201")
          /\ UNCHANGED <<businesses, services, staff, customers, requests, seq>>

\* POST /api/appointments by user (NoId: no session) while the store has room
PostAppointments(user, body) ==
  /\ Cardinality(appointments) + Cardinality(InFlight) < MaxAppointments
  /\ createAppointmentRoute(user, body)

\* GET /api/book/:businessId, the public read of the booking pages
GetBook(businessId) ==
  LET route == "GET /api/book/:businessId"
      business == getBusiness(businessId)
  IN IF ~Found(business) THEN Answer(route, NoId, businessId, "404")
     ELSE AnswerWith(route, NoId, businessId,
                     [NoBody EXCEPT !.business = business.id,
                                    !.services = getServices(businessId),
                                    !.staff = getStaff(businessId)])

\* `sum + x` of JavaScript: numbers add, anything else is appended as text
JsPlus(sum, x) ==
  IF sum.type = "number" /\ x.type = "number"
  THEN JsNumber(sum.val + x.val)
  ELSE JsText((IF sum.type = "number" THEN <<Num(sum.val)>> ELSE sum.text) \o <<x>>)

\* the reduce over the completed appointments of the list: the price of the
\* service of each, a decimal text, or 0 when the service is not in the list
RECURSIVE reduceRevenue(_, _, _)
reduceRevenue(list, listed, sum) ==
  IF list = <<>> THEN sum
  ELSE LET apt == Head(list)
           service == First({s \in listed : s.id = apt.serviceId})
           price == IF Found(service) THEN service.price ELSE Num(0)
       IN reduceRevenue(Tail(list), listed,
                        IF apt.status = "completed" THEN JsPlus(sum, price) ELSE sum)

\* new Date("YYYY-MM-DD"): midnight of the date
DateInstant(date) ==
  CASE date = "2023-12-20" -> 0 - 12 * Day
    [] date = "2024-01-01" -> 0
    [] date = "2024-01-10" -> 9 * Day
    [] date = "2024-02-05" -> 35 * Day

\* the first instant of the calendar month of an instant, and of the next
MonthStart(instant) ==
  IF instant < 0 THEN 0 - 31 * Day ELSE IF instant < 31 * Day THEN 0 ELSE 31 * Day

NextMonthStart(instant) ==
  IF instant < 0 THEN 0 ELSE IF instant < 31 * Day THEN 31 * Day ELSE 60 * Day

\* thisMonth.setDate(1): the day of the month set to 1, the time of day kept
setDate1(instant) == MonthStart(instant) + (instant % Day)

\* list.slice(-n)
sliceLast(list, n) ==
  SubSeq(list, IF Len(list) > n THEN Len(list) - n + 1 ELSE 1, Len(list))

\* GET /api/analytics by user at instant now
GetAnalytics(user, now) ==
  LET route == "GET /api/analytics"
      business == getBusinessByUserId(user)
      list == getAppointments(business.id, None)
      thisMonth == setDate1(now)
  IN IF ~isAuthenticated(user) THEN Answer(route, user, NoId, "401")
     ELSE IF ~Found(business) THEN Answer(route, user, NoId, "404")
     ELSE AnswerWith(route, user, business.id,
            [NoBody EXCEPT
               !.totalAppointments = Len(list),
               !.totalCustomers = Cardinality(getCustomers(business.id)),
               !.totalRevenue = reduceRevenue(list, getServices(business.id), JsNumber(0)),
               !.monthlyAppointments =
                  Cardinality({i \in 1..Len(list) : DateInstant(list[i].date) >= thisMonth}),
               !.totalServices = Cardinality(getServices(business.id)),
               !.totalStaff = Cardinality(getStaff(business.id)),
               !.recentAppointments = sliceLast(list, RecentCount)])

\* DatabaseStorage.updateAppointment(id, {status})
updateAppointment(id, status) ==
  /\ appointments' = {IF a.id = id THEN [a EXCEPT !.status = status] ELSE a :
                        a \in appointments}
  /\ UNCHANGED <<businesses, services, staff, customers, requests, seq, reply>>

\* ---------------------------------------------------------------- Spec
\* the public booking flow of tenant 1 under concurrency: page payloads
\* (no customerId) and payloads that carry one, for services of both tenants
Book ==
  \E r \in Requests, cd \in [name : Names, email : Emails, phone : {None}] :
    \E ad \in AppointmentBodies(1, ServiceIds, StaffIds, timeSlots, BodyStatuses, BodyCustomerIds) :
      BookLookup(r, 1, cd, ad)

Next ==
  \/ Book
  \/ \E r \in Requests : BookCreateCustomer(r)
  \/ \E r \in Requests : BookCreateAppointment(r)

Spec == Init /\ [][Next]_vars

\* ---------------------------------------------------------------- SpecManage
\* the life of stored appointments: creation by either route, service
\* updates and status updates
BookOne ==
  \E r \in Requests, cd \in [name : Names, email : {"ann@x.io"}, phone : {None}] :
    \E ad \in AppointmentBodies(1, {1}, {1}, timeSlots, BodyStatuses, BodyCustomerIds) :
      BookLookup(r, 1, cd, ad)

Post ==
  \E u \in {1, 2} :
    \E ad \in AppointmentBodies(u, ServiceIds, {1}, timeSlots, BodyStatuses, {1}) :
      PostAppointments(u, ad)

NextManage ==
  \/ BookOne
  \/ \E r \in Requests : BookCreateCustomer(r)
  \/ \E r \in Requests : BookCreateAppointment(r)
  \/ Post
  \/ \E d \in Durations : PutService(1, 1, [duration |-> Num(d), price |-> Absent])
  \/ \E a \in appointments, s \in Statuses : updateAppointment(a.id, s)

SpecManage == Init /\ [][NextManage]_vars

\* ---------------------------------------------------------------- SpecResolve
\* customer resolution: bookings of both tenants by email and by phone
BookContact ==
  \E r \in Requests, b \in BusinessIds, cd \in [name : Names, email : Emails, phone : Phones] :
    \E ad \in AppointmentBodies(b, {b}, {b}, {<<9, 0>>}, {"pending"}, {1}) :
      BookLookup(r, b, cd, ad)

NextResolve ==
  \/ BookContact
  \/ \E r \in Requests : BookCreateCustomer(r)
  \/ \E r \in Requests : BookCreateAppointment(r)

SpecResolve == Init /\ [][NextResolve]_vars

\* ---------------------------------------------------------------- SpecContact
\* customer resolution against a filled customers table.  InitContact is the
\* store after three bookings with page payloads: tenant 1 by email alone
\* (customer 1), tenant 1 by phone alone (customer 2), tenant 2 by the same
\* email and phone (customer 3); each stored its customer and then failed on
\* the appointment payload.
InitContact ==
  /\ businesses = {[id |-> 1, userId |-> 1], [id |-> 2, userId |-> 2]}
  /\ services = {[id |-> 1, businessId |-> 1, duration |-> 30, price |-> Str(5000)],
                 [id |-> 2, businessId |-> 2, duration |-> 45, price |-> Str(5000)]}
  /\ staff = {[id |-> 1, businessId |-> 1, name |-> "Sam"],
              [id |-> 2, businessId |-> 2, name |-> "Sam"]}
  /\ customers =
       {[id |-> 1, businessId |-> 1, name |-> "Ann", email |-> "ann@x.io", phone |-> None],
        [id |-> 2, businessId |-> 1, name |-> "Ann", email |-> None, phone |-> "555"],
        [id |-> 3, businessId |-> 2, name |-> "Ann", email |-> "ann@x.io", phone |-> "555"]}
  /\ appointments = {}
  /\ requests = [r \in Requests |-> IdleRequest]
  /\ seq = [services |-> 2, staff |-> 2]
  /\ reply = NoReply

BookKnown ==
  \E r \in Requests, b \in BusinessIds :
    \E cd \in [name : Names, email : Emails \cup {"bob@x.io"}, phone : Phones] :
      \E ad \in AppointmentBodies(b, {b}, {b}, {<<9, 0>>}, {"pending"}, {1}) :
        BookLookup(r, b, cd, ad)

NextContact ==
  \/ BookKnown
  \/ \E r \in Requests : BookCreateCustomer(r)
  \/ \E r \in Requests : BookCreateAppointment(r)

SpecContact == InitContact /\ [][NextContact]_vars

\* ---------------------------------------------------------------- SpecName
\* bookings of tenant 1 whose form carries a name, an empty name or none, by
\* a known and by an unknown email
BookNamed ==
  \E r \in Requests :
    \E cd \in [name : BodyNames, email : {"ann@x.io", "bob@x.io"}, phone : {None}] :
      \E ad \in AppointmentBodies(1, {1}, {1}, {<<9, 0>>}, {"pending"}, BodyCustomerIds) :
        BookLookup(r, 1, cd, ad)

NextName ==
  \/ BookNamed
  \/ \E r \in Requests : BookCreateCustomer(r)
  \/ \E r \in Requests : BookCreateAppointment(r)

SpecName == InitContact /\ [][NextName]_vars

\* ---------------------------------------------------------------- SpecRefs
\* rows that appointments reference: bookings and management requests of
\* tenant 1 that store appointments, and deletes of services and staff
BookRef ==
  \E r \in Requests, cd \in [name : Names, email : {"ann@x.io"}, phone : {None}] :
    \E ad \in AppointmentBodies(1, {1}, {1}, {<<9, 0>>}, {"pending"}, BodyCustomerIds) :
      BookLookup(r, 1, cd, ad)

PostRef ==
  \E ad \in AppointmentBodies(1, ServiceIds, StaffIds, {<<9, 0>>}, {"pending"}, {1}) :
    PostAppointments(1, ad)

NextRefs ==
  \/ BookRef
  \/ \E r \in Requests : BookCreateCustomer(r)
  \/ \E r \in Requests : BookCreateAppointment(r)
  \/ PostRef
  \/ \E id \in ServiceIds : DeleteService(1, id)
  \/ \E id \in StaffIds : DeleteStaff(1, id)

SpecRefs == Init /\ [][NextRefs]_vars

\* ---------------------------------------------------------------- SpecSession
\* a request of user u to each management route
ManagementRequest(u) ==
  \/ \E n \in {"Shop", None} : PostBusiness(u, [name |-> n])
  \/ GetBusiness(u)
  \/ GetServices(u)
  \/ PostService(u, [duration |-> Num(30), price |-> Num(50)])
  \/ PutService(u, 1, [duration |-> Num(45), price |-> Absent])
  \/ DeleteService(u, 2)
  \/ GetStaff(u)
  \/ \E n \in BodyStaffNames : PostStaff(u, [name |-> n])
  \/ PutStaff(u, 1, [name |-> "Kim"])
  \/ DeleteStaff(u, 2)
  \/ GetAppointments(u, None)
  \/ \E ad \in AppointmentBodies(1, {1}, {1}, {<<9, 0>>}, {"confirmed"}, {1}) :
       PostAppointments(u, ad)
  \/ GetAnalytics(u, 9 * Day + 600)

\* every management route, asked without a session and by the owner of
\* business 1
NextSession == \E u \in {NoId, 1} : ManagementRequest(u)

SpecSession == InitContact /\ [][NextSession]_vars

\* ---------------------------------------------------------------- SpecAuth
\* every management route, asked by the owner of business 1 and by user 3,
\* who owns no business
NextAuth == \E u \in {1, 3} : ManagementRequest(u)

SpecAuth == InitContact /\ [][NextAuth]_vars

\* ---------------------------------------------------------------- SpecCatalog
\* the services of tenant 1 under create and update requests with valid and
\* invalid prices and durations
NextCatalog ==
  \/ \E d \in BodyDurations, p \in BodyPrices :
       PostService(1, [duration |-> d, price |-> p])
  \/ \E id \in 1..MaxServices :
       \E d \in BodyDurations \cup {Absent}, p \in BodyPrices \cup {Absent} :
         PutService(1, id, [duration |-> d, price |-> p])

SpecCatalog == Init /\ [][NextCatalog]_vars

\* ---------------------------------------------------------------- SpecRead
\* the list reads of both tenants and of user 3 while appointments and
\* services are added
PostRead ==
  \E u \in {1, 2}, c \in {1, 3} :
    \E ad \in AppointmentBodies(u, {u}, {u}, timeSlots, {"confirmed"}, {c}) :
      PostAppointments(u, ad)

NextRead ==
  \/ PostRead
  \/ PostService(2, [duration |-> Num(30), price |-> Num(50)])
  \/ \E u \in UserIds : GetServices(u)
  \/ \E u \in UserIds : GetStaff(u)
  \/ \E u \in UserIds, d \in Dates \cup {None} : GetAppointments(u, d)
  \/ \E u \in UserIds : GetAnalytics(u, 9 * Day + 600)
  \/ \E b \in BusinessIds \cup {3} : GetBook(b)

SpecRead == InitContact /\ [][NextRead]_vars

\* ---------------------------------------------------------------- SpecDay
\* bookings of tenant 1 for a past and a coming date, at the first and the
\* last time slot, for its own service, a service of tenant 2 and a service
\* that does not exist, while the duration of service 1 is changed
BookDay ==
  \E r \in Requests, sv \in ServiceIds \cup {3}, d \in {"2023-12-20", "2024-01-10"} :
    \E t \in {<<9, 0>>, lastTimeSlot}, c \in BodyCustomerIds :
      BookLookup(r, 1, [name |-> "Ann", email |-> "ann@x.io", phone |-> None],
                 AppointmentData(1, sv, 1, d, t, "pending", c))

NextDay ==
  \/ BookDay
  \/ \E r \in Requests : BookCreateCustomer(r)
  \/ \E r \in Requests : BookCreateAppointment(r)
  \/ \E d \in {45, 400} : PutService(1, 1, [duration |-> Num(d), price |-> Absent])

SpecDay == Init /\ [][NextDay]_vars

\* ---------------------------------------------------------------- SpecOnboard
\* the onboarding of user 3 and of the owners: business, services from the
\* templates or by hand, staff
NextOnboard ==
  \/ \E u \in UserIds, n \in {"Shop", None} : PostBusiness(u, [name |-> n])
  \/ \E u \in UserIds, industry \in Industries : handleServiceSetup(u, industry)
  \/ \E u \in UserIds : PostService(u, [duration |-> Num(30), price |-> Num(50)])
  \/ \E u \in UserIds, n \in BodyStaffNames : PostStaff(u, [name |-> n])

SpecOnboard == Init /\ [][NextOnboard]_vars

\* ---------------------------------------------------------------- SpecAnalytics
\* the analytics of both tenants while tenant 1 receives appointments of any
\* date and status, by its owner and by the public booking route
PostDated ==
  \E d \in CalendarDates, st \in AnyStatuses :
    PostAppointments(1, AppointmentData(1, 1, 1, d, <<9, 0>>, st, 1))

BookCompleted ==
  \E r \in Requests :
    BookLookup(r, 1, [name |-> "Bob", email |-> "bob@x.io", phone |-> None],
               AppointmentData(1, 1, 1, "2024-01-10", <<9, 30>>, "completed", 1))

NextAnalytics ==
  \/ PostDated
  \/ BookCompleted
  \/ \E r \in Requests : BookCreateCustomer(r)
  \/ \E r \in Requests : BookCreateAppointment(r)
  \/ \E u \in {1, 2}, now \in Nows : GetAnalytics(u, now)

SpecAnalytics == InitContact /\ [][NextAnalytics]_vars

\* ---------------------------------------------------------------- SpecRecent
\* the analytics of a business with more appointments than the dashboard
\* lists.  InitRecent is the store of InitContact after ten requests of user 1
\* to POST /api/appointments, each for customer 1, service 1, staff member 1.
InitRecent ==
  /\ businesses = {[id |-> 1, userId |-> 1], [id |-> 2, userId |-> 2]}
  /\ services = {[id |-> 1, businessId |-> 1, duration |-> 30, price |-> Str(5000)],
                 [id |-> 2, businessId |-> 2, duration |-> 45, price |-> Str(5000)]}
  /\ staff = {[id |-> 1, businessId |-> 1, name |-> "Sam"],
              [id |-> 2, businessId |-> 2, name |-> "Sam"]}
  /\ customers =
       {[id |-> 1, businessId |-> 1, name |-> "Ann", email |-> "ann@x.io", phone |-> None],
        [id |-> 2, businessId |-> 1, name |-> "Ann", email |-> None, phone |-> "555"],
        [id |-> 3, businessId |-> 2, name |-> "Ann", email |-> "ann@x.io", phone |-> "555"]}
  /\ appointments =
       {[id |-> i, businessId |-> 1, customerId |-> 1, serviceId |-> 1, staffId |-> 1,
         date |-> "2024-01-10", startTime |-> <<9, 0>>, endTime |-> <<9, 30>>,
         status |-> "confirmed"] : i \in 1..RecentCount}
  /\ requests = [r \in Requests |-> IdleRequest]
  /\ seq = [services |-> 2, staff |-> 2]
  /\ reply = NoReply

PostRecent ==
  \E u \in {1, 2} :
    \E ad \in AppointmentBodies(u, {u}, {u}, timeSlots, {"confirmed"}, {1}) :
      /\ Cardinality(appointments) < RecentCount + MaxAppointments
      /\ createAppointmentRoute(u, ad)

NextRecent ==
  \/ PostRecent
  \/ \E u \in UserIds, now \in Nows : GetAnalytics(u, now)
  \/ \E u \in UserIds : GetAppointments(u, None)

SpecRecent == InitRecent /\ [][NextRecent]_vars

\* ---------------------------------------------------------------- claims
\* two appointments claim the same staff member on the same date
SameStaffAndDate(a1, a2) == a1.staffId = a2.staffId /\ a1.date = a2.date

\* half-open [startTime, endTime) intervals overlap
Overlap(a1, a2) ==
  /\ ToMinutes(a1.startTime) < ToMinutes(a2.endTime)
  /\ ToMinutes(a2.startTime) < ToMinutes(a1.endTime)

\* C1: no two non-cancelled appointments of the same staff member and date
\* have overlapping [startTime, endTime) intervals.
C1_NoDoubleBooking ==
  \A a1 \in appointments, a2 \in appointments :
    (/\ a1.id # a2.id
     /\ a1.status # "cancelled" /\ a2.status # "cancelled"
     /\ SameStaffAndDate(a1, a2))
    => ~Overlap(a1, a2)

\* C2: of two booking requests for the same staff member and date with
\* overlapping windows, at most one is answered 201.
C2_AtMostOneSucceeds ==
  \A r1 \in Requests, r2 \in Requests :
    (/\ r1 # r2
     /\ requests[r1].response = "201"
     /\ requests[r2].response = "201")
    => LET a1 == getAppointment(requests[r1].appointmentId)
           a2 == getAppointment(requests[r2].appointmentId)
       IN ~(SameStaffAndDate(a1, a2) /\ Overlap(a1, a2))

\* the request's service and staff member exist and belong to its business
ValidRefs(q) ==
  LET service == getService(q.appointmentData.serviceId)
      member == getStaffMember(q.appointmentData.staffId)
  IN /\ Found(service) /\ service.businessId = q.businessId
     /\ Found(member) /\ member.businessId = q.businessId

\* a stored non-cancelled appointment overlaps the request's window
Conflicts(q) ==
  \E a \in appointments :
    /\ a.status # "cancelled"
    /\ SameStaffAndDate(a, q.appointmentData)
    /\ Overlap(a, q.appointmentData)

\* the step in which the handler of request r answers after the customer
\* is resolved
Answers(r) == requests[r].pc = "haveCustomer" /\ requests'[r].pc = "done"

\* C3: a booking request whose window overlaps a stored non-cancelled
\* appointment of the same staff member and date is answered with a conflict
\* error and adds neither a customer row nor an appointment row.
C3_ConflictRejected ==
  [][\A r \in Requests :
       (/\ Answers(r)
        /\ AppointmentParses(requests[r].appointmentData)
        /\ ValidRefs(requests[r])
        /\ Conflicts(requests[r]))
       => /\ requests'[r].response = "ConflictError"
          /\ appointments' = appointments
          /\ ~requests[r].created]_vars

\* C4: a valid booking request carrying the payload of the booking pages
\* (no customerId) whose window overlaps no stored appointment is answered
\* 201 and stores an appointment with endTime = startTime + service duration.
C4_ValidBookingSucceeds ==
  [][\A r \in Requests :
       (/\ Answers(r)
        /\ requests[r].appointmentData.customerId = NoId
        /\ ValidRefs(requests[r])
        /\ ~Conflicts(requests[r]))
       => /\ requests'[r].response = "201"
          /\ \E a \in appointments' \ appointments :
               ToMinutes(a.endTime) =
                 ToMinutes(a.startTime) + getService(a.serviceId).duration]_vars

\* C5: every stored appointment ends at its start plus the duration of the
\* service it references.
C5_EndIsStartPlusDuration ==
  \A a \in appointments :
    Found(getService(a.serviceId))
    => ToMinutes(a.endTime) = ToMinutes(a.startTime) + getService(a.serviceId).duration

\* C6: the service, the staff member and the customer of every stored
\* appointment belong to the appointment's business.
C6_SameBusiness ==
  \A a \in appointments :
    /\ getService(a.serviceId).businessId = a.businessId
    /\ getStaffMember(a.staffId).businessId = a.businessId
    /\ getCustomer(a.customerId).businessId = a.businessId

\* the status state machine of the Booking Engine
AllowedTransitions ==
  {<<"pending", "confirmed">>, <<"confirmed", "completed">>,
   <<"pending", "cancelled">>, <<"confirmed", "cancelled">>}

\* C7: the status of an appointment changes only along pending -> confirmed
\* -> completed or to cancelled from pending or confirmed; completed and
\* cancelled are never left.
C7_StatusStateMachine ==
  [][\A a \in appointments, b \in appointments' :
       (a.id = b.id /\ a.status # b.status)
       => <<a.status, b.status>> \in AllowedTransitions]_vars

\* C8: an appointment inserted by the public booking route starts pending,
\* one inserted by the management route POST /api/appointments starts
\* confirmed.
C8_InitialStatus ==
  [][\A a \in appointments' \ appointments :
       IF requests' = requests
       THEN a.status = "confirmed"
       ELSE a.status = "pending"]_vars

\* C9: a booking request that has ended and created a customer row also
\* created its appointment row.
C9_CustomerAndAppointmentAtomic ==
  \A r \in Requests :
    (requests[r].pc = "done" /\ requests[r].created)
    => requests[r].appointmentId # NoId

\* the customer resolution of request q has ended with a customer
Resolved(q) == q.pc \in {"haveCustomer", "done"} /\ q.customerId # NoId

\* no other request inserted a customer between q's lookup and q's insert
Alone(q) == q.created => q.customerId = q.seen + 1

\* q2's lookup read the customers table as q1's resolution left it
InSequence(q1, q2) ==
  /\ Resolved(q1) /\ Resolved(q2)
  /\ Alone(q1) /\ Alone(q2)
  /\ q2.seen = q1.seen + (IF q1.created THEN 1 ELSE 0)

EmailMatches(q) ==
  {c \in customers : /\ c.id <= q.seen
                     /\ c.businessId = q.businessId
                     /\ q.customerData.email # None
                     /\ c.email = q.customerData.email}

PhoneMatches(q) ==
  {c \in customers : /\ c.id <= q.seen
                     /\ c.businessId = q.businessId
                     /\ q.customerData.phone # None
                     /\ c.phone = q.customerData.phone}

\* C11: a booking with a phone and no email, for a business that has a
\* customer with that phone, resolves to such a customer and inserts none.
C11_PhoneOnlyResolves ==
  \A r \in Requests :
    LET q == requests[r]
    IN (/\ q.pc # "idle"
        /\ q.customerData.email = None
        /\ PhoneMatches(q) # {})
       => /\ ~q.created
          /\ \E c \in PhoneMatches(q) : q.customerId = c.id

\* C11 witness: a phone-only booking has ended on the customer an earlier
\* booking stored with that phone
C11_Witness ==
  \E r \in Requests :
    LET q == requests[r]
    IN /\ q.pc = "done"
       /\ q.customerData.email = None
       /\ PhoneMatches(q) # {}
       /\ ~q.created
       /\ q.customerId \in {c.id : c \in PhoneMatches(q)}

\* C12: a resolved booking holds a customer of its own business; when
\* customers of the business carry the email the booking holds one of them
\* and inserted none, whatever the phone matches; when none carries the
\* email and some carry the phone it holds one of those and inserted none; it
\* inserted a customer only when neither matched.
C12_EmailBeforePhone ==
  \A r \in Requests :
    LET q == requests[r]
        byEmail == {c.id : c \in EmailMatches(q)}
        byPhone == {c.id : c \in PhoneMatches(q)}
    IN q.pc # "idle"
       => /\ byEmail # {} => q.customerId \in byEmail /\ ~q.created
          /\ (byEmail = {} /\ byPhone # {}) => q.customerId \in byPhone /\ ~q.created
          /\ q.created => byEmail = {} /\ byPhone = {}
          /\ Resolved(q) => getCustomer(q.customerId).businessId = q.businessId

\* C12 witness: a booking of tenant 1 whose email is customer 1's and whose
\* phone is customer 2's (and both are customer 3's, of tenant 2) has ended
\* on customer 1
C12_Witness ==
  \E r \in Requests :
    LET q == requests[r]
    IN /\ q.pc = "done"
       /\ q.businessId = 1
       /\ \E a \in EmailMatches(q), b \in PhoneMatches(q) :
            a.id # b.id /\ q.customerId = a.id
       /\ \E c \in customers :
            /\ c.businessId # q.businessId
            /\ c.email = q.customerData.email
            /\ c.phone = q.customerData.phone
       /\ ~q.created

C14_CustomerExists ==
  \A a \in appointments : \E c \in customers : c.id = a.customerId

\* C14 witness: a booking stored its customer and then failed, a request
\* naming a customer was refused or failed, and an appointment is stored
C14_Witness ==
  /\ \E r \in Requests :
       /\ requests[r].pc = "done"
       /\ requests[r].created
       /\ requests[r].response # "201"
  /\ appointments # {}
  /\ C14_CustomerExists

\* a request to the route was answered in this step
Served(route) == reply' # reply /\ reply'.route = route

\* C15 (as stated): a delete of a service or staff member that stored
\* appointments reference is answered 204, removes the row and leaves the
\* appointments as they are.
C15_DeleteReferencedPermitted ==
  [][/\ (/\ Served("DELETE /api/services/:id")
         /\ isAuthenticated(reply'.user)
         /\ \E a \in appointments : a.serviceId = reply'.id)
        => /\ reply'.code = "204"
           /\ \A s \in services' : s.id # reply'.id
           /\ appointments' = appointments
     /\ (/\ Served("DELETE /api/staff/:id")
         /\ isAuthenticated(reply'.user)
         /\ \E a \in appointments : a.staffId = reply'.id)
        => /\ reply'.code = "204"
           /\ \A s \in staff' : s.id # reply'.id
           /\ appointments' = appointments]_vars

\* the step leaves the store as it is
StoreUnchanged == store' = store

\* C15 (amended): a delete of a service or staff member that stored
\* appointments reference fails and leaves the store as it is; a delete of one
\* that no appointment references is answered 204 and removes that row alone.
C15_DeleteReferencedRefused ==
  [][/\ (Served("DELETE /api/services/:id") /\ isAuthenticated(reply'.user))
        => IF \E a \in appointments : a.serviceId = reply'.id
           THEN reply'.code = "DbError" /\ StoreUnchanged
           ELSE /\ reply'.code = "204"
                /\ services' = {s \in services : s.id # reply'.id}
                /\ appointments' = appointments /\ staff' = staff
     /\ (Served("DELETE /api/staff/:id") /\ isAuthenticated(reply'.user))
        => IF \E a \in appointments : a.staffId = reply'.id
           THEN reply'.code = "DbError" /\ StoreUnchanged
           ELSE /\ reply'.code = "204"
                /\ staff' = {s \in staff : s.id # reply'.id}
                /\ appointments' = appointments /\ services' = services]_vars

\* C15 witness: the delete of a service that a stored appointment references
\* has failed and the service is still stored, while a staff member that no
\* appointment references has been deleted
C15_Witness ==
  /\ reply.route = "DELETE /api/services/:id"
  /\ reply.code = "DbError"
  /\ \E a \in appointments : a.serviceId = reply.id
  /\ \E s \in services : s.id = reply.id
  /\ Cardinality(staff) < 2

ManagementRoutes ==
  {"POST /api/business", "GET /api/business",
   "GET /api/services", "POST /api/services", "PUT /api/services/:id",
   "DELETE /api/services/:id",
   "GET /api/staff", "POST /api/staff", "PUT /api/staff/:id", "DELETE /api/staff/:id",
   "GET /api/appointments", "POST /api/appointments", "GET /api/analytics"}

\* C16: a management route asked without a session answers 401 and leaves
\* the store as it is.
C16_UnauthenticatedRejected ==
  [][\A route \in ManagementRoutes :
       (Served(route) /\ reply'.user = NoId)
       => reply'.code = "401" /\ StoreUnchanged]_vars

\* C16 witness: a delete of a stored staff member asked without a session was
\* answered 401 after the owner had changed the store
C16_Witness ==
  /\ reply.route = "DELETE /api/staff/:id"
  /\ reply.user = NoId
  /\ reply.code = "401"
  /\ \E s \in staff : s.id = reply.id
  /\ Cardinality(services) > 2

\* C17: a management route on services, staff, appointments or analytics
\* asked by a user with a session and no business is rejected and leaves the
\* store as it is.
C17_NoBusinessRejected ==
  [][\A route \in ManagementRoutes \ {"POST /api/business", "GET /api/business"} :
       (/\ Served(route)
        /\ isAuthenticated(reply'.user)
        /\ ~\E b \in businesses : b.userId = reply'.user)
       => reply'.code \in {"401", "403", "404"} /\ StoreUnchanged]_vars

\* C18: no user owns two businesses.
C18_AtMostOneBusiness ==
  \A b1 \in businesses, b2 \in businesses : b1.userId = b2.userId => b1.id = b2.id

\* C19: every stored service has a positive duration and a price that is
\* not negative.
C19_ServiceDurationAndPrice ==
  \A s \in services : s.duration > 0 /\ s.price.val >= 0

\* C19 witness: a service was created with a price below half a cent, stored
\* as 0.00, the duration of service 1 was updated, and the last request, with
\* an invalid body, was refused
C19_Witness ==
  /\ \E s \in services : s.id > 2 /\ s.price.val = 0
  /\ \E s \in services : s.id = 1 /\ s.duration # 30
  /\ reply.code = "ZodError"
  /\ C19_ServiceDurationAndPrice

\* the elements of a list
Range(list) == {list[i] : i \in 1..Len(list)}

\* C20: a list read answered for business B, a business of the asking user,
\* lists every stored row of B once and no other row (the appointments of the
\* asked date when one is asked, the customers by their count); the public
\* read of business B lists the services and staff of B and no other.
C20_ListsOfOwnBusiness ==
  [][LET B == reply'.id
         body == reply'.body
     IN /\ (reply' # reply /\ reply'.code = "200"
            /\ reply'.route \in {"GET /api/services", "GET /api/staff",
                                 "GET /api/appointments", "GET /api/analytics"})
           => \E b \in businesses : b.id = B /\ b.userId = reply'.user
        /\ (Served("GET /api/services") /\ reply'.code = "200")
           => body.services = {s \in services : s.businessId = B}
        /\ (Served("GET /api/staff") /\ reply'.code = "200")
           => body.staff = {s \in staff : s.businessId = B}
        /\ (Served("GET /api/appointments") /\ reply'.code = "200")
           => /\ \A a \in Range(body.appointments) : a \in appointments /\ a.businessId = B
              /\ Len(body.appointments) = Cardinality(Range(body.appointments))
              /\ \/ Range(body.appointments) = {a \in appointments : a.businessId = B}
                 \/ \E d \in Dates : Range(body.appointments) =
                      {a \in appointments : a.businessId = B /\ a.date = d}
        /\ (Served("GET /api/analytics") /\ reply'.code = "200")
           => /\ body.totalCustomers = Cardinality({c \in customers : c.businessId = B})
              /\ body.totalAppointments = Cardinality({a \in appointments : a.businessId = B})
              /\ body.totalServices = Cardinality({s \in services : s.businessId = B})
              /\ body.totalStaff = Cardinality({s \in staff : s.businessId = B})
        /\ (Served("GET /api/book/:businessId") /\ reply'.code = "200")
           => /\ body.services = {s \in services : s.businessId = B}
              /\ body.staff = {s \in staff : s.businessId = B}]_vars

\* C20 witness: the appointments read of a business listed its appointments
\* while the store held an appointment of the other business
C20_Witness ==
  /\ reply.route = "GET /api/appointments"
  /\ reply.code = "200"
  /\ reply.body.appointments # <<>>
  /\ \A a \in Range(reply.body.appointments) : a.businessId = reply.id
  /\ \E a \in appointments : a.businessId # reply.id

\* the date lies before the day of the request, 10 January 2024
PastDate(date) == DateInstant(date) < 9 * Day

\* C21: a booking request whose date is past, or whose service or staff
\* member does not exist or belongs to another business, is answered with a
\* validation error and has inserted neither a customer nor an appointment.
C21_InvalidBookingRejected ==
  [][\A r \in Requests :
       (/\ Answers(r)
        /\ \/ ~ValidRefs(requests[r])
           \/ PastDate(requests[r].appointmentData.date))
       => /\ requests'[r].response = "ZodError"
          /\ ~requests[r].created
          /\ appointments' = appointments]_vars

\* a clock time of one day
ClockTime(t) == t[1] \in 0..23 /\ t[2] \in 0..59

\* C29: every stored appointment starts before it ends, at clock times of
\* the same day.
C29_SameDayWindow ==
  \A a \in appointments :
    /\ ClockTime(a.startTime)
    /\ ClockTime(a.endTime)
    /\ ToMinutes(a.startTime) < ToMinutes(a.endTime)

\* the request's window overlaps stored appointments of its staff member
\* and date, all of them cancelled
OverlapsCancelledOnly(q) ==
  /\ \E a \in appointments :
       /\ a.status = "cancelled"
       /\ SameStaffAndDate(a, q.appointmentData)
       /\ Overlap(a, q.appointmentData)
  /\ ~Conflicts(q)

\* C22: a valid booking request whose window overlaps only cancelled
\* appointments is answered 201, and a conflict is answered only when a
\* non-cancelled appointment overlaps.
C22_CancelledDoNotBlock ==
  [][\A r \in Requests :
       Answers(r)
       => /\ (ValidRefs(requests[r]) /\ OverlapsCancelledOnly(requests[r]))
             => requests'[r].response = "201"
          /\ requests'[r].response = "ConflictError" => Conflicts(requests[r])]_vars

\* C23: 'Use These Services' by a user who has a business stores one service
\* of that business per template of the industry, with the duration and the
\* price of the template, and takes the wizard to step 3; the wizard stays on
\* step 2 only when a creation failed.
C23_TemplatesCreated ==
  [][Served("onboarding: Use These Services")
     => LET templates == serviceTemplates[reply'.body.industry]
            created == services' \ services
        IN /\ (\E b \in businesses : b.userId = reply'.user)
              => /\ Cardinality(created) = Len(templates)
                 /\ \A i \in 1..Len(templates) :
                      \E s \in created :
                        /\ s.duration = templates[i].duration
                        /\ s.price = Str(100 * templates[i].price)
                        /\ getBusiness(s.businessId).userId = reply'.user
                 /\ reply'.body.step = 3
           /\ reply'.body.step = 2 => Cardinality(created) < Len(templates)]_vars

\* the sum of the prices, in cents, of the services of the appointments
RECURSIVE SumOfPrices(_)
SumOfPrices(apts) ==
  IF apts = {} THEN 0
  ELSE LET apt == CHOOSE a \in apts : TRUE
           service == getService(apt.serviceId)
       IN (IF Found(service) THEN service.price.val ELSE 0) + SumOfPrices(apts \ {apt})

\* C24: the totalRevenue of the analytics of business B is the number that
\* is the sum of the prices of the services of the completed appointments of B.
C24_RevenueIsSum ==
  [][(Served("GET /api/analytics") /\ reply'.code = "200")
     => reply'.body.totalRevenue =
          JsNumber(SumOfPrices({a \in appointments :
                                  a.businessId = reply'.id /\ a.status = "completed"}))]_vars

\* the date lies in January 2024, the month of every request of the model
InCurrentMonth(date) ==
  /\ MonthStart(9 * Day) <= DateInstant(date)
  /\ DateInstant(date) < NextMonthStart(9 * Day)

\* C26: the monthlyAppointments of the analytics of business B is the number
\* of appointments of B dated in the current calendar month.
C26_MonthlyCount ==
  [][(Served("GET /api/analytics") /\ reply'.code = "200")
     => reply'.body.monthlyAppointments =
          Cardinality({a \in appointments :
                         a.businessId = reply'.id /\ InCurrentMonth(a.date)})]_vars

\* C28: the status of every stored appointment is one of the four statuses,
\* and no appointment stored by the public booking route is completed.
C28_StatusInDomain ==
  \A a \in appointments :
    /\ a.status \in Statuses
    /\ (\E r \in Requests : requests[r].appointmentId = a.id) => a.status # "completed"

\* C25: the recentAppointments of the analytics of business B are
\* appointments of B, ten of them or all when B has fewer, and none of B's
\* other appointments was created (got its serial id) after one of them.
C25_MostRecentTen ==
  [][(Served("GET /api/analytics") /\ reply'.code = "200")
     => LET recent == Range(reply'.body.recentAppointments)
            all == {a \in appointments : a.businessId = reply'.id}
        IN /\ recent \subseteq all
           /\ Cardinality(recent) =
                IF Cardinality(all) > RecentCount THEN RecentCount ELSE Cardinality(all)
           /\ \A a \in all \ recent, b \in recent : a.id < b.id]_vars

\* user owns the business of the row
Owns(user, row) == \E b \in businesses : b.id = row.businessId /\ b.userId = user

\* C27: a PUT or DELETE on /api/services/:id or /api/staff/:id by a user
\* with a session leaves every service and staff member of a business the
\* user does not own as it was.
C27_OnlyOwnRows ==
  [][/\ (Served("PUT /api/services/:id") \/ Served("DELETE /api/services/:id"))
        => \A s \in services : (s.id = reply'.id /\ ~Owns(reply'.user, s)) => s \in services'
     /\ (Served("PUT /api/staff/:id") \/ Served("DELETE /api/staff/:id"))
        => \A s \in staff : (s.id = reply'.id /\ ~Owns(reply'.user, s)) => s \in staff']_vars

\* C30: within one business no two customers share an email or share a
\* phone, and no two customers without email and phone carry the same name.
C30_UniqueContact ==
  \A c1 \in customers, c2 \in customers :
    (c1.id # c2.id /\ c1.businessId = c2.businessId)
    => /\ c1.email # None => c1.email # c2.email
       /\ c1.phone # None => c1.phone # c2.phone
       /\ (c1.email = None /\ c1.phone = None /\ c2.email = None /\ c2.phone = None)
          => c1.name # c2.name

====
